---- MODULE Spec2Model ----
(***************************************************************************)
(* A model of the HelloDagger module (.dagger/src/hello_dagger/main.py):   *)
(* the deterministic pipeline (build_env, test, build, publish) and the    *)
(* agent path (develop, develop_issue).                                    *)
(*                                                                         *)
(* Every top-level invocation is one strictly sequential task; pc[i] is    *)
(* the list of steps the invocation still has to run (its continuation).   *)
(* A call pushes the callee's steps, a raised exception empties the list:  *)
(* main.py has no try/except, so every failure aborts the invocation.      *)
(* The Dagger objects are lazy; the steps are taken in the order in which  *)
(* the engine has to resolve them, which is the program order.             *)
(*                                                                         *)
(* err[i] records the step that failed.  main.py defines no exception      *)
(* classes: ErrorName gives the name the specification uses for a failure  *)
(* of that step in that operation.                                         *)
(***************************************************************************)
EXTENDS Integers, Sequences, FiniteSets, TLC

\* ------------------------------------------------------------- bounds
NInv == 2            \* top-level invocations the caller makes (may overlap)
NPkg == 2            \* packages "npm install" fetches for the source
MaxAgentSteps == 2   \* tool calls the agent makes during one run
MaxDraw == 2         \* values of random.randrange the model samples

\* -------------------------------------------------- program constants
RandRange == 100000000   \* random.randrange(10**8)
ExposedPort == 80        \* with_exposed_port(80)

Invs == 1..NInv
Packages == 1..NPkg
\* The names of the cache volumes of the engine.
CacheKeys == {"node"} \cup {"node-" \o ToString(i) : i \in Invs}

\* A source tree is abstracted by what the three npm commands do on it.
Trees == {"ok", "badinstall", "badtest", "badbuild"}
\* A directory: a tree, and whether it holds a node_modules subtree.
NoDir == [tree |-> "none", nm |-> FALSE]
\* Directories a caller passes as `source`.
Sources == [tree : Trees, nm : {FALSE}]
\* Assignments a caller passes to develop.
Assignments == {"add a logout button"}
\* Issue records the tracker holds.
NoIssue == [title |-> "", body |-> "", url |-> ""]
Issues == {[title |-> "Crash", body |-> "Fix crash on startup", url |-> "gh/issues/42"],
           [title |-> "Logout", body |-> "add a logout button", url |-> "gh/issues/7"]}
NoRet == [kind |-> "none", dir |-> NoDir, str |-> ""]

VARIABLES
  op,          \* op[i]: the operation invocation i runs ("none": not started)
  pc,          \* pc[i]: the steps invocation i still has to run
  source,      \* source[i]: the `source` argument
  assignment,  \* assignment[i]: develop's `assignment`
  targ,        \* targ[i]: the directory the running build_env/test/build got
  todo,        \* todo[i]: the next package npm install handles
  err,         \* err[i]: the step whose failure ended the invocation ("": none)
  ret,         \* ret[i]: the value the last finished call returned
  trace,       \* trace[i]: the steps with an outside effect, in order
  cache,       \* cache[k]: the packages cache volume k holds
  downloads,   \* downloads[p]: how often package p was downloaded
  tag,         \* tag[i]: the image tag publish drew ("": none)
  binding,     \* binding[i]: the environment's slots, in registration order
  run,         \* run[i]: the agent run's state
  starts,      \* starts[i]: how often the engine was started
  work,        \* work[i]: the directory of the agent's workspace
  cdir,        \* cdir[i]: develop's `completed` source, then completed_directory
  steps,       \* steps[i]: tool calls the agent made
  tools,       \* tools[i]: the workspace operations the agent called
  issue,       \* issue[i]: the issue record read
  pulls        \* pulls[i]: the pull requests invocation i created

vars == <<op, pc, source, assignment, targ, todo, err, ret, trace, cache,
          downloads, tag, binding, run, starts, work, cdir, steps, tools, issue, pulls>>

pipeVars == <<cache, downloads, tag>>
agentVars == <<binding, run, starts, work, cdir, steps, tools>>
issueVars == <<issue, pulls>>

Init ==
  /\ op = [i \in Invs |-> "none"]
  /\ pc = [i \in Invs |-> <<>>]
  /\ source = [i \in Invs |-> NoDir]
  /\ assignment = [i \in Invs |-> ""]
  /\ targ = [i \in Invs |-> NoDir]
  /\ todo = [i \in Invs |-> 1]
  /\ err = [i \in Invs |-> ""]
  /\ ret = [i \in Invs |-> NoRet]
  /\ trace = [i \in Invs |-> <<>>]
  /\ cache = [k \in CacheKeys |-> {}]
  /\ downloads = [p \in Packages |-> 0]
  /\ tag = [i \in Invs |-> ""]
  /\ binding = [i \in Invs |-> <<>>]
  /\ run = [i \in Invs |-> "none"]
  /\ starts = [i \in Invs |-> 0]
  /\ work = [i \in Invs |-> NoDir]
  /\ cdir = [i \in Invs |-> NoDir]
  /\ steps = [i \in Invs |-> 0]
  /\ tools = [i \in Invs |-> {}]
  /\ issue = [i \in Invs |-> NoIssue]
  /\ pulls = [i \in Invs |-> <<>>]

\* ------------------------------------------------------------ helpers
Head1(s) == IF s = <<>> THEN "" ELSE Head(s)
At(i, step) == Head1(pc[i]) = step
Done(i) == op[i] # "none" /\ pc[i] = <<>>
Event(e, d) == [ev |-> e, dir |-> d]
Log(i, e, d) == trace' = [trace EXCEPT ![i] = Append(@, Event(e, d))]
\* The step finished: go on with the rest.
Pop(i) == pc' = [pc EXCEPT ![i] = Tail(@)]
\* The step finished and calls `callee`: its steps run before the rest.
Call(i, callee) == pc' = [pc EXCEPT ![i] = callee \o Tail(@)]
\* The step raised: nothing catches it, the invocation ends with the error.
Raise(i, step) ==
  /\ pc' = [pc EXCEPT ![i] = <<>>]
  /\ err' = [err EXCEPT ![i] = step]

\* The name the specification gives a failure of `step` in operation o.
ErrorName(o, step) ==
  CASE step = "install" -> "DependencyInstallError"
    [] step = "test" -> IF o \in {"develop", "develop_issue"}
                          THEN "PostAgentValidationFailure" ELSE "TestFailure"
    [] step = "build" -> "BuildFailure"
    [] step = "env" -> "DuplicateSlotError"
    [] step = "engine" -> "AgentExecutionError"
    [] step = "output" -> "IncompleteRunError"
    [] step = "issue_read" -> "IssueNotFoundError"
    [] OTHER -> ""

\* The steps of each method, in program order.
BuildEnvSteps == <<"build_env">>
TestSteps == BuildEnvSteps \o <<"test_exec">>
BuildSteps == BuildEnvSteps \o <<"npm_build", "image">>
\* A publish that builds before it tests.
PublishStepsBuildFirst == <<"p_build", "p_test", "p_registry">>
PublishSteps == <<"p_test">> \o <<"p_build", "p_registry">>

\* -------------------------------------------------------- invocation
\* The caller starts a pipeline operation on a source directory.
InvokePipeline(i) ==
  /\ op[i] = "none"
  /\ \E o \in {"publish", "build", "test", "build_env"}, s \in Sources :
       /\ op' = [op EXCEPT ![i] = o]
       /\ source' = [source EXCEPT ![i] = s]
       /\ targ' = [targ EXCEPT ![i] = s]
       /\ pc' = [pc EXCEPT ![i] =
                   CASE o = "publish" -> PublishSteps
                     [] o = "build" -> BuildSteps
                     [] o = "test" -> TestSteps
                     [] OTHER -> BuildEnvSteps]
  /\ UNCHANGED <<assignment, todo, err, ret, trace, pipeVars, agentVars, issueVars>>

\* ---------------------------------------------------------- build_env
\* A cache volume of its own for every invocation.
CacheKeyPerInvocation(i) == "node-" \o ToString(i)
\* build_env, line 65: the cache volume every invocation mounts.
CacheKey(i) == "node"

\* build_env, lines 65-73: the node container with the source at /src and
\* the cache volume mounted at /root/.npm, then npm install, one package
\* at a time: a package the volume holds is reused, any other is
\* downloaded and added to it.  After the last package the install scripts
\* of the tree run and may fail.
BuildEnv(i) ==
  /\ At(i, "build_env")
  /\ LET k == CacheKey(i)
         p == todo[i]
     IN IF p \in Packages
          THEN /\ todo' = [todo EXCEPT ![i] = @ + 1]
               /\ IF p \in cache[k]
                    THEN UNCHANGED <<cache, downloads>>
                    ELSE /\ cache' = [cache EXCEPT ![k] = @ \cup {p}]
                         /\ downloads' = [downloads EXCEPT ![p] = @ + 1]
               /\ UNCHANGED <<pc, err>>
          ELSE /\ todo' = [todo EXCEPT ![i] = 1]
               /\ IF targ[i].tree = "badinstall"
                    THEN Raise(i, "install")
                    ELSE Pop(i) /\ UNCHANGED err
               /\ UNCHANGED <<cache, downloads>>
  /\ UNCHANGED <<op, source, assignment, targ, ret, trace, tag, agentVars, issueVars>>

\* -------------------------------------------------------------- test
\* test, lines 51-55: npm run test:unit in build_env(source); its stdout
\* is the result, a non-zero exit raises.
TestsPass(d) == d.tree \notin {"badtest"}
TestExec(i) ==
  /\ At(i, "test_exec")
  /\ IF TestsPass(targ[i])
       THEN /\ Pop(i)
            /\ Log(i, "test_ok", targ[i])
            /\ ret' = [ret EXCEPT ![i] = [kind |-> "str", dir |-> NoDir, str |-> "tests passed"]]
            /\ UNCHANGED err
       ELSE /\ Raise(i, "test")
            /\ Log(i, "test_failed", targ[i])
            /\ UNCHANGED ret
  /\ UNCHANGED <<op, source, assignment, targ, todo, pipeVars, agentVars, issueVars>>

\* ------------------------------------------------------------- build
\* build, lines 31-35: npm run build in build_env(source), ./dist taken.
NpmBuild(i) ==
  /\ At(i, "npm_build")
  /\ IF targ[i].tree = "badbuild"
       THEN Raise(i, "build")
       ELSE Pop(i) /\ UNCHANGED err
  /\ UNCHANGED <<op, source, assignment, targ, todo, ret, trace, pipeVars, agentVars, issueVars>>

\* build, lines 36-41: the nginx image with the build output, port 80.
Image(i) ==
  /\ At(i, "image")
  /\ Pop(i)
  /\ Log(i, "image", targ[i])
  /\ ret' = [ret EXCEPT ![i] = [kind |-> "container", dir |-> targ[i],
                                str |-> "nginx:" \o ToString(ExposedPort)]]
  /\ UNCHANGED <<op, source, assignment, targ, todo, err, pipeVars, agentVars, issueVars>>

\* ----------------------------------------------------------- publish
\* publish, line 18: await self.test(source).
PublishTest(i) ==
  /\ At(i, "p_test")
  /\ targ' = [targ EXCEPT ![i] = source[i]]
  /\ Call(i, TestSteps)
  /\ UNCHANGED <<op, source, assignment, todo, err, ret, trace, pipeVars, agentVars, issueVars>>

\* publish, line 19: self.build(source).
PublishBuild(i) ==
  /\ At(i, "p_build")
  /\ targ' = [targ EXCEPT ![i] = source[i]]
  /\ Call(i, BuildSteps)
  /\ Log(i, "build_call", source[i])
  /\ UNCHANGED <<op, source, assignment, todo, err, ret, pipeVars, agentVars, issueVars>>

\* publish, line 20: the tag, with a number random.randrange draws.
TagOf(n) == "ttl.sh/hello-dagger-" \o ToString(n)
Draws == 0..((IF MaxDraw < RandRange THEN MaxDraw ELSE RandRange) - 1)
\* The reference the registry returns: the tag and the image's digest.
RefOf(t, image) == t \o "@" \o image.tree

\* publish, lines 19-21: .publish(tag) on the built container.
PublishRegistry(i) ==
  /\ At(i, "p_registry")
  /\ \E n \in Draws :
       /\ tag' = [tag EXCEPT ![i] = TagOf(n)]
       /\ ret' = [ret EXCEPT ![i] = [kind |-> "str", dir |-> NoDir,
                                     str |-> RefOf(TagOf(n), ret[i].dir)]]
  /\ Pop(i)
  /\ Log(i, "registry", ret[i].dir)
  /\ UNCHANGED <<op, source, assignment, targ, todo, err, cache, downloads, agentVars, issueVars>>

\* ------------------------------------------- environment binding
\* dag.env(): the named slots of one agent invocation.  A slot holds its
\* name, direction and type, and a value once it is bound.
Slot(n, d, t) == [name |-> n, direction |-> d, type |-> t,
                  bound |-> FALSE, str |-> "", dir |-> NoDir]
SlotNames(b) == {b[k].name : k \in DOMAIN b}
\* withInput / withOutput: a name registered before is refused and the
\* binding stays as it was.
Register(b, slot) ==
  IF slot.name \in SlotNames(b)
    THEN [ok |-> FALSE, b |-> b]
    ELSE [ok |-> TRUE, b |-> Append(b, slot)]
\* The slots registered in order; the first refusal ends the chain.
RECURSIVE RegisterAll(_, _)
RegisterAll(b, slots) ==
  IF slots = <<>> THEN [ok |-> TRUE, b |-> b]
  ELSE LET r == Register(b, Head(slots))
       IN IF r.ok THEN RegisterAll(r.b, Tail(slots)) ELSE r
\* output(name): the value of a declared output slot the run has bound.
HasOutput(b, n) ==
  \E k \in DOMAIN b : b[k].name = n /\ b[k].direction = "out" /\ b[k].bound
OutputOf(b, n) ==
  b[CHOOSE k \in DOMAIN b : b[k].name = n /\ b[k].direction = "out"].dir
\* The engine binds output slot n to directory d.
BindOutput(b, n, d) ==
  [k \in DOMAIN b |->
     IF b[k].name = n /\ b[k].direction = "out"
       THEN [b[k] EXCEPT !.bound = TRUE, !.dir = d]
       ELSE b[k]]

\* The operations a workspace exposes to the agent.
WorkspaceOps == {"read", "list", "edit", "install", "build", "test"}

\* ----------------------------------------------------------- develop
\* A develop that builds and publishes the image of what it validated.
DevelopStepsPublishing ==
  <<"d_env", "d_llm", "d_run", "d_output", "d_strip", "d_test", "p_build", "p_registry", "d_return">>
\* A develop_issue that opens the pull request before the agent has run.
DevelopIssueStepsPrFirst == <<"i_read", "i_pr", "i_develop">>
DevelopSteps == <<"d_env", "d_llm", "d_run", "d_output", "d_strip", "d_test", "d_return">>
DevelopIssueSteps == <<"i_read", "i_develop", "i_pr">>

\* The caller starts develop or develop_issue.
InvokeAgent(i) ==
  /\ op[i] = "none"
  /\ \E s \in Sources :
       /\ source' = [source EXCEPT ![i] = s]
       /\ \/ /\ op' = [op EXCEPT ![i] = "develop"]
             /\ \E a \in Assignments : assignment' = [assignment EXCEPT ![i] = a]
             /\ pc' = [pc EXCEPT ![i] = DevelopSteps]
          \/ /\ op' = [op EXCEPT ![i] = "develop_issue"]
             /\ pc' = [pc EXCEPT ![i] = DevelopIssueSteps]
             /\ UNCHANGED assignment
  /\ UNCHANGED <<targ, todo, err, ret, trace, pipeVars, agentVars, issueVars>>

\* An output slot registered under the name of the workspace input.
DevelopSlotsDuplicate(a, s) ==
  << [name |-> "assignment", direction |-> "in", type |-> "string",
      bound |-> TRUE, str |-> a, dir |-> NoDir],
     [name |-> "workspace", direction |-> "in", type |-> "workspace",
      bound |-> TRUE, str |-> "", dir |-> s],
     [name |-> "workspace", direction |-> "out", type |-> "workspace",
      bound |-> FALSE, str |-> "", dir |-> NoDir] >>
\* develop, lines 85-95: the slots the environment is given, in order.
DevelopSlots(a, s) ==
  << [Slot("assignment", "in", "string") EXCEPT !.bound = TRUE, !.str = a],
     [Slot("workspace", "in", "workspace") EXCEPT !.bound = TRUE, !.dir = s],
     Slot("completed", "out", "workspace") >>

\* develop, lines 83-96: the environment; dag.workspace(source) is the
\* workspace the agent gets.
DevelopEnv(i) ==
  /\ At(i, "d_env")
  /\ LET r == RegisterAll(<<>>, DevelopSlots(assignment[i], source[i]))
     IN /\ binding' = [binding EXCEPT ![i] = r.b]
        /\ IF r.ok
             THEN Pop(i) /\ work' = [work EXCEPT ![i] = source[i]] /\ UNCHANGED err
             ELSE Raise(i, "env") /\ UNCHANGED work
  /\ UNCHANGED <<op, source, assignment, targ, todo, ret, trace, pipeVars,
                 run, starts, cdir, steps, tools, issueVars>>

\* develop, lines 99-102: the agent run, with the prompt file and the
\* environment; the engine has not started.
DevelopLlm(i) ==
  /\ At(i, "d_llm")
  /\ run' = [run EXCEPT ![i] = "created"]
  /\ Pop(i)
  /\ UNCHANGED <<op, source, assignment, targ, todo, err, ret, trace, pipeVars,
                 binding, starts, work, cdir, steps, tools, issueVars>>

\* develop, line 105: work.env() makes the engine run the agent.
EngineStart(i) ==
  /\ At(i, "d_run")
  /\ run[i] = "created"
  /\ run' = [run EXCEPT ![i] = "running"]
  /\ starts' = [starts EXCEPT ![i] = @ + 1]
  /\ Log(i, "engine_start", work[i])
  /\ UNCHANGED <<op, pc, source, assignment, targ, todo, err, ret, pipeVars,
                 binding, work, cdir, steps, tools, issueVars>>

\* The agent calls one operation of its workspace: an edit leaves any
\* tree, install and test leave a node_modules subtree.
AgentStep(i) ==
  /\ At(i, "d_run")
  /\ run[i] = "running"
  /\ steps[i] < MaxAgentSteps
  /\ steps' = [steps EXCEPT ![i] = @ + 1]
  /\ \E t \in WorkspaceOps :
       /\ tools' = [tools EXCEPT ![i] = @ \cup {t}]
       /\ CASE t = "edit" ->
                 \E tr \in Trees : work' = [work EXCEPT ![i].tree = tr]
            [] t \in {"install", "test"} ->
                 work' = [work EXCEPT ![i].nm = TRUE]
            [] OTHER -> UNCHANGED work
  /\ UNCHANGED <<op, pc, source, assignment, targ, todo, err, ret, trace, pipeVars,
                 binding, run, starts, cdir, issueVars>>

\* The engine ends the run: with an error, or reporting completion with
\* the output slot bound to the workspace or left unbound.
EngineFinish(i) ==
  /\ At(i, "d_run")
  /\ run[i] = "running"
  /\ \/ /\ run' = [run EXCEPT ![i] = "failed"]
        /\ Log(i, "engine_failed", NoDir)
        /\ UNCHANGED binding
     \/ /\ run' = [run EXCEPT ![i] = "completed"]
        /\ Log(i, "engine_completed", work[i])
        /\ \/ binding' = [binding EXCEPT ![i] = BindOutput(@, "completed", work[i])]
           \/ UNCHANGED binding
  /\ Pop(i)
  /\ UNCHANGED <<op, source, assignment, targ, todo, err, ret, pipeVars,
                 starts, work, cdir, steps, tools, issueVars>>

\* A develop that falls back to the input workspace when the run bound no output.
DevelopOutputFallback(i) ==
  /\ At(i, "d_output")
  /\ IF run[i] = "failed"
       THEN Raise(i, "engine") /\ UNCHANGED <<cdir, trace>>
       ELSE LET d == IF HasOutput(binding[i], "completed")
                       THEN OutputOf(binding[i], "completed") ELSE work[i]
            IN /\ cdir' = [cdir EXCEPT ![i] = d]
               /\ Log(i, "output", d)
               /\ Pop(i)
               /\ UNCHANGED err
  /\ UNCHANGED <<op, source, assignment, targ, todo, ret, pipeVars,
                 binding, run, starts, work, steps, tools, issueVars>>

\* A develop that runs the agent again when the run failed.
DevelopOutputRetry(i) ==
  /\ At(i, "d_output")
  /\ IF run[i] = "failed"
       THEN /\ starts[i] < 2
            /\ run' = [run EXCEPT ![i] = "created"]
            /\ pc' = [pc EXCEPT ![i] = <<"d_run">> \o @]
            /\ UNCHANGED <<cdir, trace, err>>
       ELSE /\ UNCHANGED run
            /\ IF ~HasOutput(binding[i], "completed")
                 THEN Raise(i, "output") /\ UNCHANGED <<cdir, trace>>
                 ELSE /\ cdir' = [cdir EXCEPT ![i] = OutputOf(binding[i], "completed")]
                      /\ Log(i, "output", OutputOf(binding[i], "completed"))
                      /\ Pop(i)
                      /\ UNCHANGED err
  /\ UNCHANGED <<op, source, assignment, targ, todo, ret, pipeVars,
                 binding, starts, work, steps, tools, issueVars>>

\* develop, lines 105-106: output("completed").as_workspace().source().
\* A failed run raises the engine's error, an output the run did not bind
\* cannot be retrieved.
DevelopOutput(i) ==
  /\ At(i, "d_output")
  /\ IF run[i] = "failed"
       THEN Raise(i, "engine") /\ UNCHANGED <<cdir, trace>>
       ELSE IF ~HasOutput(binding[i], "completed")
         THEN Raise(i, "output") /\ UNCHANGED <<cdir, trace>>
         ELSE /\ cdir' = [cdir EXCEPT ![i] = OutputOf(binding[i], "completed")]
              /\ Log(i, "output", OutputOf(binding[i], "completed"))
              /\ Pop(i)
              /\ UNCHANGED err
  /\ UNCHANGED <<op, source, assignment, targ, todo, ret, pipeVars,
                 binding, run, starts, work, steps, tools, issueVars>>

\* Directory.without_directory(path).
WithoutDirectory(d, path) ==
  IF path = "node_modules" THEN [d EXCEPT !.nm = FALSE] ELSE d

\* develop, line 106: .without_directory("node_modules").
DevelopStrip(i) ==
  /\ At(i, "d_strip")
  /\ cdir' = [cdir EXCEPT ![i] = WithoutDirectory(@, "node_modules")]
  /\ Pop(i)
  /\ UNCHANGED <<op, source, assignment, targ, todo, err, ret, trace, pipeVars,
                 binding, run, starts, work, steps, tools, issueVars>>

\* A develop that runs the test gate on the source it was given.
DevelopTestOnSource(i) ==
  /\ At(i, "d_test")
  /\ targ' = [targ EXCEPT ![i] = source[i]]
  /\ Call(i, TestSteps)
  /\ UNCHANGED <<op, source, assignment, todo, err, ret, trace, pipeVars, agentVars, issueVars>>

\* develop, line 109: await self.test(completed_directory).
DevelopTest(i) ==
  /\ At(i, "d_test")
  /\ targ' = [targ EXCEPT ![i] = cdir[i]]
  /\ Call(i, TestSteps)
  /\ UNCHANGED <<op, source, assignment, todo, err, ret, trace, pipeVars, agentVars, issueVars>>

\* develop, line 112: return completed_directory.
DevelopReturn(i) ==
  /\ At(i, "d_return")
  /\ ret' = [ret EXCEPT ![i] = [kind |-> "dir", dir |-> cdir[i], str |-> ""]]
  /\ Pop(i)
  /\ UNCHANGED <<op, source, assignment, targ, todo, err, trace, pipeVars, agentVars, issueVars>>

\* ----------------------------------------------------- develop_issue
\* develop_issue, lines 126-130: the issue is read; assignment is its body.
IssueRead(i) ==
  /\ At(i, "i_read")
  /\ \/ /\ Raise(i, "issue_read")
        /\ UNCHANGED <<issue, assignment, trace>>
     \/ \E r \in Issues :
          /\ issue' = [issue EXCEPT ![i] = r]
          /\ assignment' = [assignment EXCEPT ![i] = r.body]
          /\ Log(i, "issue_read", NoDir)
          /\ Pop(i)
          /\ UNCHANGED err
  /\ UNCHANGED <<op, source, targ, todo, ret, pipeVars, agentVars, pulls>>

\* develop_issue, line 133: await self.develop(assignment, source).
IssueDevelop(i) ==
  /\ At(i, "i_develop")
  /\ Call(i, DevelopSteps)
  /\ UNCHANGED <<op, source, assignment, targ, todo, err, ret, trace, pipeVars, agentVars, issueVars>>

\* The url the tracker gives a pull request.
PullUrl(pr) == "gh/pull/" \o pr.title

\* A develop_issue that submits the source it was given, under the issue's
\* title as the body.
CreatePullRequestFromSource(i) ==
  /\ At(i, "i_pr")
  /\ LET pr == [title |-> issue[i].title,
                body |-> issue[i].title \o "\n\nCloses " \o issue[i].url,
                content |-> source[i]]
     IN /\ pulls' = [pulls EXCEPT ![i] = Append(@, pr)]
        /\ ret' = [ret EXCEPT ![i] = [kind |-> "str", dir |-> NoDir, str |-> PullUrl(pr)]]
        /\ Log(i, "pull_request", source[i])
  /\ Pop(i)
  /\ UNCHANGED <<op, source, assignment, targ, todo, err, pipeVars, agentVars, issue>>

\* develop_issue, lines 136-141: the pull request is created from the
\* issue's title and url, the assignment and the directory develop returned.
CreatePullRequest(i) ==
  /\ At(i, "i_pr")
  /\ LET feature == ret[i].dir
         title == issue[i].title
         url == issue[i].url
         body == assignment[i] \o "\n\nCloses " \o url
         pr == [title |-> title, body |-> body, content |-> feature]
     IN /\ pulls' = [pulls EXCEPT ![i] = Append(@, pr)]
        /\ ret' = [ret EXCEPT ![i] = [kind |-> "str", dir |-> NoDir, str |-> PullUrl(pr)]]
        /\ Log(i, "pull_request", feature)
  /\ Pop(i)
  /\ UNCHANGED <<op, source, assignment, targ, todo, err, pipeVars, agentVars, issue>>

\* ------------------------------------------------------ specification
Pipeline(i) ==
  \/ InvokePipeline(i)
  \/ BuildEnv(i)
  \/ TestExec(i)
  \/ NpmBuild(i)
  \/ Image(i)
  \/ PublishTest(i)
  \/ PublishBuild(i)
  \/ PublishRegistry(i)

Agent(i) ==
  \/ InvokeAgent(i)
  \/ DevelopEnv(i)
  \/ DevelopLlm(i)
  \/ EngineStart(i)
  \/ AgentStep(i)
  \/ EngineFinish(i)
  \/ DevelopOutput(i)
  \/ DevelopStrip(i)
  \/ DevelopTest(i)
  \/ DevelopReturn(i)
  \/ IssueRead(i)
  \/ IssueDevelop(i)
  \/ CreatePullRequest(i)

\* One top-level invocation of any of the six operations.
Next == Pipeline(1) \/ Agent(1)
Spec == Init /\ [][Next]_vars

\* Concurrent top-level invocations of the pipeline operations, which
\* share the cache volume.
NextPipe == \E i \in Invs : Pipeline(i)
SpecPipe == Init /\ [][NextPipe]_vars

\* ============================================================ properties
AgentOps == {"develop", "develop_issue"}
HasEv(i, e) == \E k \in DOMAIN trace[i] : trace[i][k].ev = e
\* Event k of invocation i follows a successful test of directory d.
AfterTestOf(i, k, d) == \E j \in 1..(k - 1) : trace[i][j] = Event("test_ok", d)
TestGateRan(i) == HasEv(i, "test_ok") \/ HasEv(i, "test_failed")
\* The directory the agent left in the output slot, node_modules stripped.
Validated(i) == WithoutDirectory(OutputOf(binding[i], "completed"), "node_modules")

\* C1: in publish the image build (the call of build, the image) and the
\* registry publish happen only after the test of the same source has
\* passed; when the test fails publish ends with that error and neither
\* the build nor the registry publish is ever reached.
C1_TestBeforeBuildAndPublish ==
  \A i \in Invs : op[i] = "publish" =>
    /\ \A k \in DOMAIN trace[i] :
         trace[i][k].ev \in {"build_call", "image", "registry"}
           => AfterTestOf(i, k, source[i])
    /\ tag[i] # "" => HasEv(i, "test_ok")
    /\ HasEv(i, "test_failed") =>
         /\ Done(i) /\ err[i] = "test" /\ ErrorName(op[i], err[i]) = "TestFailure"
         /\ ret[i] = NoRet
         /\ ~HasEv(i, "build_call") /\ ~HasEv(i, "image") /\ ~HasEv(i, "registry")
    /\ (Done(i) /\ ~TestsPass(source[i])) => err[i] \in {"install", "test"}

\* One publish went through to the registry while another one stopped at
\* its failing test.
C1_Witness ==
  \E i, j \in Invs :
    /\ op[i] = "publish" /\ Done(i) /\ err[i] = "" /\ HasEv(i, "registry")
    /\ op[j] = "publish" /\ Done(j) /\ err[j] = "test"

\* C2: develop returns a directory only if, after the agent run completed,
\* the test gate ran on exactly that directory (the agent's workspace with
\* node_modules stripped) and passed; when the agent's output fails the
\* tests develop ends with PostAgentValidationFailure and returns nothing.
C2_ReturnsOnlyValidated ==
  \A i \in Invs : op[i] \in AgentOps =>
    /\ ret[i].kind = "dir" =>
         /\ run[i] = "completed" /\ HasOutput(binding[i], "completed")
         /\ ret[i].dir = Validated(i)
         /\ ~ret[i].dir.nm
         /\ \E k \in DOMAIN trace[i] :
              /\ trace[i][k] = Event("test_ok", ret[i].dir)
              /\ \E j \in 1..(k - 1) :
                   /\ trace[i][j].ev = "engine_completed"
                   /\ ret[i].dir = WithoutDirectory(trace[i][j].dir, "node_modules")
    /\ (Done(i) /\ HasOutput(binding[i], "completed") /\ ~TestsPass(Validated(i))) =>
         /\ err[i] \in {"test", "install"}
         /\ err[i] = "test" => ErrorName(op[i], err[i]) = "PostAgentValidationFailure"
         /\ Validated(i).tree = "badtest" => err[i] = "test"
         /\ ret[i].kind # "dir"
         /\ pulls[i] = <<>>

\* develop returned a tree the agent edited and tested in its workspace.
C2_Witness ==
  \E i \in Invs :
    /\ op[i] = "develop" /\ Done(i) /\ ret[i].kind = "dir"
    /\ {"edit", "test"} \subseteq tools[i]
    /\ ret[i].dir.tree # source[i].tree
    /\ OutputOf(binding[i], "completed").nm

\* C3: develop_issue creates at most one pull request, and only after the
\* issue read, the agent run and the post-agent test gate succeeded in that
\* order; an invocation that failed has created none.
C3_PullRequestOnlyAfterSuccess ==
  \A i \in Invs :
    /\ Len(pulls[i]) <= 1
    /\ pulls[i] # <<>> => op[i] = "develop_issue" /\ err[i] = ""
    /\ err[i] # "" => Done(i) /\ pulls[i] = <<>> /\ ~HasEv(i, "pull_request")
    /\ \A k \in DOMAIN trace[i] : trace[i][k].ev = "pull_request" =>
         \E a, b, c \in 1..(k - 1) :
           /\ a < b /\ b < c
           /\ trace[i][a].ev = "issue_read"
           /\ trace[i][b].ev = "engine_completed"
           /\ trace[i][c] = Event("test_ok", trace[i][k].dir)
    /\ (op[i] = "develop_issue" /\ Done(i) /\ err[i] = "") => Len(pulls[i]) = 1

\* develop_issue finished and opened its pull request.
C3_Witness ==
  \E i \in Invs :
    op[i] = "develop_issue" /\ Done(i) /\ err[i] = "" /\ Len(pulls[i]) = 1

\* C4: the agent gets the issue body as its assignment, and the pull
\* request has the issue's title, the assignment followed by the closing
\* reference to the issue's url as body, and the validated directory
\* develop returned as content.
C4_PullRequestFromIssue ==
  \A i \in Invs : op[i] = "develop_issue" =>
    /\ issue[i] # NoIssue => issue[i] \in Issues /\ assignment[i] = issue[i].body
    /\ binding[i] # <<>> =>
         /\ binding[i][1].name = "assignment"
         /\ binding[i][1].str = issue[i].body
    /\ \A k \in DOMAIN pulls[i] :
         /\ pulls[i][k].title = issue[i].title
         /\ pulls[i][k].body = issue[i].body \o "\n\nCloses " \o issue[i].url
         /\ pulls[i][k].content = Validated(i)
         /\ \E j \in DOMAIN trace[i] : trace[i][j] = Event("test_ok", pulls[i][k].content)

\* The pull request for issue 42, with a tree the agent changed.
C4_Witness ==
  \E i \in Invs :
    /\ pulls[i] # <<>>
    /\ issue[i].url = "gh/issues/42"
    /\ pulls[i][1].body = "Fix crash on startup\n\nCloses gh/issues/42"
    /\ pulls[i][1].content.tree # source[i].tree

\* C5: two publish invocations that succeed use different tags and return
\* different references.
C5_TagsUnique ==
  \A i, j \in Invs :
    (i # j /\ op[i] = "publish" /\ op[j] = "publish" /\ tag[i] # "" /\ tag[j] # "")
      => tag[i] # tag[j] /\ ret[i].str # ret[j].str

\* C6: a binding never holds two slots of one name, registering a name it
\* holds is refused and leaves it as it was, and develop's binding is built
\* without a refusal: assignment and workspace in, completed out.
C6_SlotNamesUnique ==
  \A i \in Invs :
    /\ Cardinality(SlotNames(binding[i])) = Len(binding[i])
    /\ \A n \in SlotNames(binding[i]), d \in {"in", "out"} :
         LET r == Register(binding[i], Slot(n, d, "workspace"))
         IN ~r.ok /\ r.b = binding[i]
    /\ err[i] # "env"
    /\ binding[i] # <<>> =>
         /\ [k \in DOMAIN binding[i] |-> binding[i][k].name]
              = <<"assignment", "workspace", "completed">>
         /\ [k \in DOMAIN binding[i] |-> binding[i][k].direction]
              = <<"in", "in", "out">>

\* develop built its binding and the run bound the output.
C6_Witness ==
  \E i \in Invs : Len(binding[i]) = 3 /\ HasOutput(binding[i], "completed")

RunMoves == {<<"none", "created">>, <<"created", "running">>,
             <<"running", "completed">>, <<"running", "failed">>}
C8_State ==
  \A i \in Invs :
    /\ starts[i] <= 1
    /\ run[i] \in {"running", "completed", "failed"} => starts[i] = 1
    /\ run[i] = "failed" =>
         /\ At(i, "d_output") \/ (Done(i) /\ err[i] = "engine")
         /\ err[i] # "" => ErrorName(op[i], err[i]) = "AgentExecutionError"
         /\ ~TestGateRan(i)
         /\ ret[i].kind # "dir"
         /\ pulls[i] = <<>>
C8_Step ==
  \A i \in Invs : run'[i] # run[i] => <<run[i], run'[i]>> \in RunMoves

\* C8: an agent run moves created -> running -> completed or failed and
\* stays in its terminal state; the engine is started at most once per
\* invocation; a failed run ends develop with AgentExecutionError, with no
\* test gate run and nothing returned.
C8_RunLifecycle == []C8_State /\ [][C8_Step]_vars

\* The run failed after the agent had worked, and develop ended with the
\* engine's error.
C8_Witness ==
  \E i \in Invs :
    run[i] = "failed" /\ Done(i) /\ err[i] = "engine" /\ steps[i] > 0

\* The outcome of a pipeline operation on a source with an empty cache.
ColdStartError(o, s) ==
  CASE s.tree = "badinstall" -> "install"
    [] s.tree = "badtest" /\ o \in {"test", "publish"} -> "test"
    [] s.tree = "badbuild" /\ o \in {"build", "publish"} -> "build"
    [] OTHER -> ""
C9_State ==
  /\ \A i \in Invs : Done(i) => err[i] = ColdStartError(op[i], source[i])
  /\ \A p \in Packages :
       /\ downloads[p] <= 1
       /\ downloads[p] = 1 <=> p \in cache["node"]
C9_Step == \A k \in CacheKeys : cache[k] \subseteq cache'[k]

PublishEvents == {"build_call", "image", "registry"}

\* C10: develop and develop_issue never build or publish an image, the
\* agent calls only the operations of its workspace, none of which
\* publishes, and only publish reaches the registry.
C10_LeastPrivilege ==
  \A i \in Invs :
    /\ op[i] \in AgentOps =>
         /\ \A k \in DOMAIN trace[i] : trace[i][k].ev \notin PublishEvents
         /\ tag[i] = ""
         /\ ret[i].kind # "container"
    /\ tools[i] \subseteq WorkspaceOps
    /\ tools[i] \cap {"publish", "deploy", "build_call", "image", "registry"} = {}
    /\ HasEv(i, "registry") => op[i] = "publish"
    /\ HasEv(i, "image") => op[i] \in {"publish", "build"}

\* develop_issue ran to its pull request with an agent that used its tools.
C10_Witness ==
  \E i \in Invs :
    op[i] = "develop_issue" /\ Done(i) /\ err[i] = "" /\ Cardinality(tools[i]) = 2
====
